---- MODULE Spec2Model ----
(***************************************************************************)
(* A model of the error primitives of package stdlib (errors.go):          *)
(* Error values, their wrap chains, the mutable ErrorGroup with its        *)
(* backing slice, and the errorChain view.                                 *)
(*                                                                         *)
(* Error values are records.  An `error` interface value is one of         *)
(*   [kind |-> "nil"]                       the nil interface              *)
(*   [kind |-> "Error", ...]                a stdlib.Error (by value)      *)
(*   [kind |-> "generic", id, wrapped]      a foreign error; id is its     *)
(*                                          reference identity, wrapped    *)
(*                                          what its Unwrap() returns      *)
(*   [kind |-> "group", ref]                a *ErrorGroup (ref 0: nil ptr) *)
(*   [kind |-> "chain", arr, off, len]      an errorChain slice            *)
(* Slices are headers (arr, len, cap) into a heap of backing arrays, so    *)
(* that aliasing between slices is part of the state.  Strings built by    *)
(* formatting are sequences of tokens; the empty string is << >>.          *)
(***************************************************************************)
EXTENDS Integers, Sequences, FiniteSets, TLC

VARIABLES
    groups,     \* heap of ErrorGroup objects: ref -> [Errors: slice header, Formatter]
    errArrays,  \* heap of []Error backing arrays: id -> sequence of cap Errors
    tagArrays,  \* heap of []string backing arrays (ErrorExtras.Tags)
    vals,       \* the Error values a caller holds (the original and With* results)
    chain,      \* the value the last ErrorGroup.Unwrap returned, with its content then
    last        \* the last call: [op, recv, args, res, pre]

vars == <<groups, errArrays, tagArrays, vals, chain, last>>

(***************************************************************************)
(* Bounds of the model.                                                    *)
(***************************************************************************)
MaxGroups == 2
MaxAsGroups == 1
MaxLen == 3
MaxVals == 3
MaxTags == 3

(***************************************************************************)
(* Values.                                                                 *)
(***************************************************************************)
Nil == [kind |-> "nil"]

NilSlice == [arr |-> 0, len |-> 0, cap |-> 0]

ErrorNamespaceDefault == "stdlibx-go"

ErrorFlagUnknown == 2

ErrorFlagRetryable == 4

ErrorFlagTimeout == 8

NoExtras == [Debug |-> "", Help |-> << >>, Retry |-> 0, Tags |-> NilSlice]

MkError(code, message, namespace, flags, wrapped) ==
    [kind |-> "Error", Code |-> code, Extras |-> NoExtras, Flags |-> flags,
     Message |-> message, Namespace |-> namespace, Wrapped |-> wrapped]

ZeroError == MkError("", "", "", 0, Nil)

ErrUndefined ==
    MkError("undefined", "wrapped the following error which is not well-defined",
            ErrorNamespaceDefault, ErrorFlagUnknown, Nil)

Generic(id, wrapped) == [kind |-> "generic", id |-> id, wrapped |-> wrapped]

GroupPtr(r) == [kind |-> "group", ref |-> r]

ErrorChain(arr, off, len) == [kind |-> "chain", arr |-> arr, off |-> off, len |-> len]

NewError == [kind |-> "ptr", elem |-> ZeroError]

Heap(gs, arrs) == [groups |-> gs, arrays |-> arrs]

(***************************************************************************)
(* Slices over the []Error heap.                                           *)
(***************************************************************************)
SliceContent(arrs, s) ==
    IF s.len = 0 THEN << >> ELSE SubSeq(arrs[s.arr], 1, s.len)

ChainContent(arrs, c) ==
    IF c.len = 0 THEN << >> ELSE SubSeq(arrs[c.arr], c.off + 1, c.off + c.len)

GroupErrors(H, r) == SliceContent(H.arrays, H.groups[r].Errors)

\* a with its i-th slot set to v
SetAt(a, i, v) == SubSeq(a, 1, i - 1) \o <<v>> \o SubSeq(a, i + 1, Len(a))

\* n slots holding the zero value v (make, and the spare slots of a grown array)
RECURSIVE Zeroed(_, _)
Zeroed(n, v) == IF n <= 0 THEN << >> ELSE <<v>> \o Zeroed(n - 1, v)

FreshId(arrs) ==
    CHOOSE i \in 1..(Cardinality(DOMAIN arrs) + 1) :
        /\ i \notin DOMAIN arrs
        /\ \A j \in 1..(i - 1) : j \in DOMAIN arrs

\* The capacity append gives a slice it has to grow (runtime growslice, small sizes).
GrowCap(oldCap, needed) ==
    IF needed > 2 * oldCap THEN needed ELSE 2 * oldCap

(***************************************************************************)
(* Error: Equal, IsZero, Unwrap.                                           *)
(***************************************************************************)
Equal(e, e2) ==
    /\ e.Code = e2.Code
    /\ e.Message = e2.Message
    /\ e.Namespace = e2.Namespace
    /\ e.Flags = e2.Flags
    /\ e.Extras.Debug = e2.Extras.Debug
    /\ e.Extras.Help = e2.Extras.Help
    /\ e.Extras.Retry = e2.Extras.Retry

\* The dynamic type reflect sees: Error for a value, *Error for new(Error).
TypeOf(x) == IF x.kind = "ptr" THEN <<"*", x.elem.kind>> ELSE <<x.kind>>

\* reflect.DeepEqual: values of different types are never deeply equal.
DeepEqual(x, y) == TypeOf(x) = TypeOf(y) /\ x = y

IsZero(e) == DeepEqual(e, NewError)

ErrorUnwrap(e) == e.Wrapped

\* Mutant: only an empty chain has no further cause.
ChainUnwrapOnlyEmptyEnds(c) ==
    IF c.len = 0 THEN Nil ELSE ErrorChain(c.arr, c.off + 1, c.len - 1)

ChainUnwrap(c) ==
    IF c.len <= 1 THEN Nil ELSE ErrorChain(c.arr, c.off + 1, c.len - 1)

(***************************************************************************)
(* errors.As(err, &target) for the two target types the package uses:      *)
(* T = "Error" (var e Error) and T = "group" (var eg *ErrorGroup).         *)
(* The result is the value assigned to the target, Nil when As is false.   *)
(* A *ErrorGroup is walked through its Unwrap (no cause, its one element,   *)
(* or a chain over its elements); a chain through errorChain.As (its head)  *)
(* and then errorChain.Unwrap (its tail).                                  *)
(***************************************************************************)
RECURSIVE As(_, _, _)
RECURSIVE AsSeq(_, _, _)
AsSeq(H, es, T) ==
    IF es = << >> THEN Nil
    ELSE LET hit == As(H, Head(es), T)
         IN IF hit # Nil THEN hit
            ELSE IF Len(es) <= 1 THEN Nil ELSE AsSeq(H, Tail(es), T)

As(H, err, T) ==
    IF err.kind = "nil" THEN Nil
    ELSE IF err.kind = T THEN err
    ELSE IF err.kind = "Error" THEN As(H, err.Wrapped, T)
    ELSE IF err.kind = "generic" THEN As(H, err.wrapped, T)
    ELSE IF err.kind = "chain" THEN AsSeq(H, ChainContent(H.arrays, err), T)
    ELSE \* a *ErrorGroup and T = "Error": follow ErrorGroup.Unwrap
         IF err.ref = 0 THEN Nil
         ELSE LET es == GroupErrors(H, err.ref)
              IN IF Len(es) = 0 THEN Nil
                 ELSE IF Len(es) = 1 THEN As(H, es[1], T)
                 ELSE AsSeq(H, es, T)

(***************************************************************************)
(* Error: Copy, Wrap.                                                      *)
(***************************************************************************)
RECURSIVE Copy(_, _)
Copy(H, e) ==
    LET wrapped == As(H, e.Wrapped, "Error")
    IN IF e.Wrapped # Nil /\ wrapped # Nil
       THEN [e EXCEPT !.Wrapped = Copy(H, wrapped)]
       ELSE e

\* Mutant: a receiver that already has a cause keeps it.
WrapKeepsCause(H, e, err) ==
    IF err = Nil \/ e.Wrapped # Nil THEN e
    ELSE [e EXCEPT !.Wrapped = err]

Wrap(H, e, err) ==
    IF err = Nil THEN e
    ELSE IF IsZero(e) /\ As(H, err, "Error") # Nil
         THEN Copy(H, As(H, err, "Error"))
         ELSE [e EXCEPT !.Wrapped = err]

(***************************************************************************)
(* ErrorGroup: Append, NewErrorGroup, and Error.AsGroup.                   *)
(***************************************************************************)
\* g.Errors = append(g.Errors, e)
AppendSlice(H, r, e) ==
    LET s == H.groups[r].Errors
    IN IF s.len < s.cap
       THEN [groups |-> [H.groups EXCEPT ![r].Errors.len = s.len + 1],
             arrays |-> [H.arrays EXCEPT ![s.arr] = SetAt(@, s.len + 1, e)]]
       ELSE LET id == FreshId(H.arrays)
                nc == GrowCap(s.cap, s.len + 1)
                content == SliceContent(H.arrays, s) \o <<e>>
                           \o Zeroed(nc - s.len - 1, ZeroError)
            IN [groups |-> [H.groups EXCEPT
                              ![r].Errors = [arr |-> id, len |-> s.len + 1, cap |-> nc]],
                arrays |-> (id :> content) @@ H.arrays]

\* SliceTypeAssert[Error, error](eg.Errors): a new []error holding the elements.
SliceTypeAssert(es) == es

RECURSIVE AppendOp(_, _, _)
AppendOp(H, r, errs) ==
    IF errs = << >> THEN H
    ELSE LET err == Head(errs)
             eg == As(H, err, "group")
             found == As(H, err, "Error")
             e == IF found = Nil THEN Wrap(H, ErrUndefined, err) ELSE found
             H1 == IF err = Nil THEN H
                   ELSE IF eg # Nil
                        THEN AppendOp(H, r, SliceTypeAssert(GroupErrors(H, eg.ref)))
                        ELSE IF IsZero(e) THEN H
                             ELSE AppendSlice(H, r, e)
         IN AppendOp(H1, r, Tail(errs))

\* The heap after NewErrorGroup(errs...); the new group's ref is Len(H.groups) + 1.
NewErrorGroupOp(H, errs) ==
    LET r == Len(H.groups) + 1
        n == Len(errs)
        id == IF n = 0 THEN 0 ELSE FreshId(H.arrays)
        eg == [Errors |-> [arr |-> id, len |-> 0, cap |-> n], Formatter |-> "default"]
        arrs == IF n = 0 THEN H.arrays
                ELSE (id :> Zeroed(n, ZeroError)) @@ H.arrays
    IN AppendOp(Heap(Append(H.groups, eg), arrs), r, errs)

\* Mutant: the walk tests the cause before appending it, so a terminal
\* non-Error cause is left out.
RECURSIVE AsGroupLoopErrorsOnly(_, _, _)
AsGroupLoopErrorsOnly(H, r, err) ==
    IF err.Wrapped = Nil THEN H
    ELSE LET we == As(H, err.Wrapped, "Error")
         IN IF we = Nil THEN H
            ELSE AsGroupLoopErrorsOnly(AppendOp(H, r, <<err.Wrapped>>), r, we)

RECURSIVE AsGroupLoop(_, _, _)
AsGroupLoop(H, r, err) ==
    IF err.Wrapped = Nil THEN H
    ELSE LET H1 == AppendOp(H, r, <<err.Wrapped>>)
             we == As(H1, err.Wrapped, "Error")
         IN IF we = Nil THEN H1 ELSE AsGroupLoop(H1, r, we)

AsGroupOp(H, e) == AsGroupLoop(NewErrorGroupOp(H, <<e>>), Len(H.groups) + 1, e)

\* Backing arrays no slice refers to any more are garbage.
Collect(H, keep) ==
    LET live == {H.groups[r].Errors.arr : r \in 1..Len(H.groups)} \cup keep
    IN [id \in (DOMAIN H.arrays) \cap live |-> H.arrays[id]]

LenOk(H) == \A r \in 1..Len(H.groups) : H.groups[r].Errors.len <= MaxLen

(***************************************************************************)
(* Inputs.                                                                 *)
(***************************************************************************)
E1 == MkError("a", "m", "app", 0, Nil)

E2 == MkError("b", "m", "app", ErrorFlagRetryable, Nil)

E3 == MkError("c", "m", "app", 0, Nil)

G1 == Generic(1, Nil)

G2 == Generic(2, E2)

GroupRefs == {GroupPtr(r) : r \in 1..Len(groups)}

Call(op, recv, args, res, pre) ==
    [op |-> op, recv |-> recv, args |-> args, res |-> res, pre |-> pre]

H0 == Heap(groups, errArrays)

\* Receivers of the Error methods.
Receivers ==
    {ZeroError, E1, E2, [E1 EXCEPT !.Wrapped = G1], [E1 EXCEPT !.Wrapped = E2],
     [E3 EXCEPT !.Wrapped = G2], [ZeroError EXCEPT !.Wrapped = G1]}

\* Causes handed to Wrap.
Causes ==
    {Nil, G1, G2, E1, E2, ZeroError, [E2 EXCEPT !.Wrapped = G1],
     [E2 EXCEPT !.Wrapped = E3]}
    \cup GroupRefs \cup {[E3 EXCEPT !.Wrapped = g] : g \in GroupRefs}

(***************************************************************************)
(* Actions on Error values.                                                *)
(***************************************************************************)
Init ==
    /\ groups = << >>
    /\ errArrays = << >>
    /\ tagArrays = << >>
    /\ vals = << >>
    /\ chain = [g |-> 0, res |-> Nil, snap |-> << >>, cur |-> Nil, k |-> 0]
    /\ last = Call("init", Nil, << >>, Nil, << >>)

DoIsZero ==
    \E e \in Receivers :
        /\ last' = Call("IsZero", e, << >>, IsZero(e), << >>)
        /\ UNCHANGED <<groups, errArrays, tagArrays, vals, chain>>

DoWrap ==
    \E e \in Receivers, err \in Causes :
        /\ last' = Call("Wrap", e, <<err>>, Wrap(H0, e, err), << >>)
        /\ UNCHANGED <<groups, errArrays, tagArrays, vals, chain>>

\* e.Wrap(err).Wrap(err2).AsGroup(), with err, err2 possibly nil (Wrap(nil) is e)
DoAsGroup ==
    \E e \in {ZeroError, E1, [E3 EXCEPT !.Wrapped = G2]},
       err \in {Nil, E2, [E2 EXCEPT !.Wrapped = E3]} \cup GroupRefs,
       err2 \in {Nil, G1, G2} :
        LET x == Wrap(H0, Wrap(H0, e, err), err2)
            H1 == AsGroupOp(H0, x)
        IN /\ Len(groups) < MaxAsGroups
           /\ LenOk(H1)
           /\ groups' = H1.groups
           /\ errArrays' = Collect(H1, {})
           /\ last' = Call("AsGroup", x, <<e, err, err2>>, GroupPtr(Len(H1.groups)), << >>)
           /\ UNCHANGED <<tagArrays, vals, chain>>

\* Receivers of Copy: the receivers above, one whose cause is an Error with a
\* cause of its own, and one per group wrapping that group.
CopyReceivers ==
    Receivers \cup {[E1 EXCEPT !.Wrapped = [E2 EXCEPT !.Wrapped = G1]]}
    \cup {[E1 EXCEPT !.Wrapped = g] : g \in GroupRefs}

DoCopy ==
    \E e \in CopyReceivers :
        /\ last' = Call("Copy", e, << >>, Copy(H0, e), << >>)
        /\ UNCHANGED <<groups, errArrays, tagArrays, vals, chain>>

NextErr == DoIsZero \/ DoWrap \/ DoAsGroup \/ DoCopy

SpecErr == Init /\ [][NextErr]_vars

(***************************************************************************)
(* Claims about Error values, checked under SpecErr.                       *)
(***************************************************************************)

\* C1: IsZero() returns true if and only if the receiver is the default
\* Error (every field at its zero value).
C1_IsZeroIffDefault ==
    last.op = "IsZero" => (last.res <=> (last.recv = ZeroError))

\* C2: identity adoption: a zero Error wrapping an error that carries an
\* Error identity e2 yields a result Equal to e2.
C2_IdentityAdoption ==
    (/\ last.op = "Wrap"
     /\ last.recv = ZeroError
     /\ As(H0, last.args[1], "Error") # Nil)
    => Equal(last.res, As(H0, last.args[1], "Error"))

\* The case of C5: e1.Wrap(e2).Wrap(genericErr).AsGroup() for non-zero
\* Errors e1, e2 and a generic error.
C5_Case ==
    /\ last.op = "AsGroup"
    /\ last.args[1] # ZeroError
    /\ last.args[2].kind = "Error"
    /\ last.args[2] # ZeroError
    /\ last.args[3].kind = "generic"

\* C5 as stated: the group holds exactly [e1 (with its wrap), e2] and no
\* element for the terminal generic cause.
C5_AsGroupExcludesTerminalCause ==
    C5_Case =>
        LET es == GroupErrors(H0, last.res.ref)
        IN /\ Len(es) = 2
           /\ Equal(es[1], last.args[1])
           /\ Equal(es[2], last.args[2])
           /\ \A i \in 1..Len(es) : es[i].Wrapped = last.args[3] => i = 1

\* C5 amended: Wrap replaces the cause, so e1.Wrap(e2).Wrap(genericErr) wraps
\* genericErr alone, and AsGroup() appends the terminal non-Error cause too,
\* wrapped in ErrUndefined: for a genericErr whose unwrap chain reaches no
\* Error and no ErrorGroup the group is exactly
\* [e1 wrapping genericErr, ErrUndefined wrapping genericErr].
C5_AsGroupIncludesTerminalCause ==
    (/\ C5_Case
     /\ As(H0, last.args[3], "Error") = Nil
     /\ As(H0, last.args[3], "group") = Nil)
    => GroupErrors(H0, last.res.ref)
         = << [last.args[1] EXCEPT !.Wrapped = last.args[3]],
              [ErrUndefined EXCEPT !.Wrapped = last.args[3]] >>

C5_Witness ==
    /\ C5_Case
    /\ last.args[3] = G1
    /\ last.args[2] = E2
    /\ Len(GroupErrors(H0, last.res.ref)) = 2

\* C7 as stated: for a non-zero Error e and every error err (nil included),
\* e.Wrap(err).Unwrap() is err and the result keeps e's identity.
C7_WrapUnwrapAnyCause ==
    (last.op = "Wrap" /\ last.recv # ZeroError)
    => /\ ErrorUnwrap(last.res) = last.args[1]
       /\ last.res = [last.recv EXCEPT !.Wrapped = last.res.Wrapped]

\* C7 amended: for a non-zero Error e and every non-nil error err,
\* e.Wrap(err).Unwrap() is err itself and the result keeps e's Code, Message,
\* Namespace, Flags and Extras (Wrap(nil) returns e with the cause it had).
C7_WrapUnwrapNonNilCause ==
    (last.op = "Wrap" /\ last.recv # ZeroError /\ last.args[1] # Nil)
    => /\ ErrorUnwrap(last.res) = last.args[1]
       /\ last.res = [last.recv EXCEPT !.Wrapped = last.res.Wrapped]

C7_Witness ==
    /\ last.op = "Wrap"
    /\ last.recv = [E1 EXCEPT !.Wrapped = G1]
    /\ last.args[1] = GroupPtr(1)
    /\ ErrorUnwrap(last.res) = GroupPtr(1)

\* C12: Copy() preserves the cause chain: e.Copy() is Equal to e; when
\* e.Wrapped is an Error the copy's cause is an Error Equal to it; and when
\* e.Wrapped is not an Error (nil, a generic error, one that itself wraps an
\* Error included, or an ErrorGroup) the copy's Unwrap() is that same value.
C12_CopyPreservesCause ==
    last.op = "Copy" =>
        /\ Equal(last.res, last.recv)
        /\ IF last.recv.Wrapped.kind = "Error"
           THEN /\ ErrorUnwrap(last.res).kind = "Error"
                /\ Equal(ErrorUnwrap(last.res), last.recv.Wrapped)
           ELSE ErrorUnwrap(last.res) = last.recv.Wrapped

(***************************************************************************)
(* The With* methods.  ErrorExtras.Tags is a slice: WithTag appends to it   *)
(* (in place when the backing array has room), the other With* methods      *)
(* copy the slice header.  Each operator yields the new tag heap and the    *)
(* returned Error.                                                          *)
(***************************************************************************)
RECURSIVE BitOr(_, _)
BitOr(a, b) ==
    IF a = 0 THEN b
    ELSE IF b = 0 THEN a
    ELSE (IF a % 2 = 1 \/ b % 2 = 1 THEN 1 ELSE 0) + 2 * BitOr(a \div 2, b \div 2)

\* Bitmask.Set
BitmaskSet(flags, attribute) == BitOr(flags, attribute)

TagsContent(T, s) == IF s.len = 0 THEN << >> ELSE SubSeq(T[s.arr], 1, s.len)

RECURSIVE WriteAt(_, _, _)
WriteAt(a, i, xs) ==
    IF xs = << >> THEN a ELSE WriteAt(SetAt(a, i, Head(xs)), i + 1, Tail(xs))

\* append(s, tags...) on the []string heap: [heap, slice]
AppendTags(T, s, tags) ==
    LET n == Len(tags)
    IN IF s.len + n <= s.cap
       THEN [heap |-> IF n = 0 THEN T
                      ELSE [T EXCEPT ![s.arr] = WriteAt(@, s.len + 1, tags)],
             slice |-> [s EXCEPT !.len = s.len + n]]
       ELSE LET id == FreshId(T)
                nc == GrowCap(s.cap, s.len + n)
                content == TagsContent(T, s) \o tags \o Zeroed(nc - s.len - n, "")
            IN [heap |-> (id :> content) @@ T,
                slice |-> [arr |-> id, len |-> s.len + n, cap |-> nc]]

WithDebugExtras(x, extras) ==
    [Debug |-> extras, Help |-> x.Help, Retry |-> x.Retry, Tags |-> x.Tags]

WithHelpExtras(x, extras) ==
    [Debug |-> x.Debug, Help |-> extras, Retry |-> x.Retry, Tags |-> x.Tags]

WithRetryExtras(x, extras) ==
    [Debug |-> x.Debug, Help |-> x.Help, Retry |-> extras, Tags |-> x.Tags]

ExtrasWithTag(T, x, tags) ==
    LET a == AppendTags(T, x.Tags, tags)
    IN [heap |-> a.heap,
        extras |-> [Debug |-> x.Debug, Help |-> x.Help, Retry |-> x.Retry,
                    Tags |-> a.slice]]

WithFlag(e, attribute) == [e EXCEPT !.Flags = BitmaskSet(e.Flags, attribute)]

WithDebugInfo(e, extras) == [e EXCEPT !.Extras = WithDebugExtras(e.Extras, extras)]

WithHelp(e, extras) == [e EXCEPT !.Extras = WithHelpExtras(e.Extras, extras)]

WithRetry(e, extras) == [e EXCEPT !.Extras = WithRetryExtras(e.Extras, extras)]

WithTag(T, e, tags) ==
    LET x == ExtrasWithTag(T, e.Extras, tags)
    IN [heap |-> x.heap, err |-> [e EXCEPT !.Extras = x.extras]]

\* What a holder of e can observe: its fields, with the Tags it reads.
Observe(T, e) == [e EXCEPT !.Extras.Tags = TagsContent(T, e.Extras.Tags)]

ObserveAll(T, vs) == [i \in 1..Len(vs) |-> Observe(T, vs[i])]

WithTagsOf(e, s) == [e EXCEPT !.Extras.Tags = s]

TagInputs == {<<"a">>, <<"b">>, <<"a", "b">>}

\* The caller's Error: Tags nil, Tags full, or Tags with spare capacity
\* (append(make([]string, 0, 2), "t")).
InitTags ==
    /\ groups = << >>
    /\ errArrays = << >>
    /\ chain = [g |-> 0, res |-> Nil, snap |-> << >>, cur |-> Nil, k |-> 0]
    /\ last = Call("init", Nil, << >>, Nil, << >>)
    /\ \/ /\ tagArrays = << >>
          /\ vals = <<E1>>
       \/ /\ tagArrays = <<(<<"t">>)>>
          /\ vals = <<WithTagsOf(E1, [arr |-> 1, len |-> 1, cap |-> 1])>>
       \/ /\ tagArrays = <<(<<"t", "">>)>>
          /\ vals = <<WithTagsOf(E1, [arr |-> 1, len |-> 1, cap |-> 2])>>

Returned(op, i, args, e) ==
    /\ Len(vals) < MaxVals
    /\ vals' = Append(vals, e)
    /\ last' = Call(op, i, args, Len(vals) + 1, ObserveAll(tagArrays, vals))
    /\ UNCHANGED <<groups, errArrays, chain>>

DoWithFlag ==
    \E i \in 1..Len(vals), a \in {ErrorFlagUnknown, ErrorFlagRetryable, ErrorFlagTimeout} :
        /\ Returned("WithFlag", i, <<a>>, WithFlag(vals[i], a))
        /\ UNCHANGED tagArrays

DoWithDebugInfo ==
    \E i \in 1..Len(vals) :
        /\ Returned("WithDebugInfo", i, <<"trace">>, WithDebugInfo(vals[i], "trace"))
        /\ UNCHANGED tagArrays

DoWithHelp ==
    \E i \in 1..Len(vals) :
        LET h == <<[URL |-> "u", Description |-> "d"]>>
        IN /\ Returned("WithHelp", i, <<h>>, WithHelp(vals[i], h))
           /\ UNCHANGED tagArrays

DoWithRetry ==
    \E i \in 1..Len(vals) :
        /\ Returned("WithRetry", i, <<5>>, WithRetry(vals[i], 5))
        /\ UNCHANGED tagArrays

DoWithTag ==
    \E i \in 1..Len(vals), tags \in TagInputs :
        LET w == WithTag(tagArrays, vals[i], tags)
        IN /\ w.err.Extras.Tags.len <= MaxTags
           /\ Returned("WithTag", i, <<tags>>, w.err)
           /\ tagArrays' = w.heap

\* The holder of vals[i] assigns to an element of its Tags.
DoMutateTag ==
    \E i \in 1..Len(vals) :
        \E k \in 1..vals[i].Extras.Tags.len :
            /\ tagArrays' = [tagArrays EXCEPT ![vals[i].Extras.Tags.arr] = SetAt(@, k, "w")]
            /\ last' = Call("MutateTag", i, <<k>>, i, ObserveAll(tagArrays, vals))
            /\ UNCHANGED <<groups, errArrays, vals, chain>>

NextTags ==
    \/ DoWithFlag \/ DoWithDebugInfo \/ DoWithHelp \/ DoWithRetry
    \/ DoWithTag \/ DoMutateTag

SpecTags == InitTags /\ [][NextTags]_vars

(***************************************************************************)
(* Claim about the With* methods, checked under SpecTags.                  *)
(***************************************************************************)

\* C6: With* results are independent copies: no With* call and no mutation
\* of one value changes what the original or any other returned value shows
\* (its fields and the contents of its Tags).
C6_WithResultsIndependent ==
    \A i \in 1..Len(last.pre) :
        \/ last.op = "MutateTag" /\ last.recv = i
        \/ Observe(tagArrays, vals[i]) = last.pre[i]

(***************************************************************************)
(* ErrorGroup: the remaining methods and ErrorJoin.  A call that may panic  *)
(* returns [panic, val].                                                    *)
(***************************************************************************)
Ret(v) == [panic |-> FALSE, val |-> v]

Panic == [panic |-> TRUE, val |-> Nil]

RECURSIVE ErrorString(_, _)
RECURSIVE JoinPoints(_, _)
\* strings.Join of the "* <err>" points with "\n"
JoinPoints(H, es) ==
    IF es = << >> THEN << >>
    ELSE <<"* ">> \o ErrorString(H, Head(es))
         \o (IF Len(es) > 1 THEN <<"\n">> \o JoinPoints(H, Tail(es)) ELSE << >>)

ErrorGroupFormatterDefault(H, es) ==
    IF Len(es) = 0 THEN << >>
    ELSE IF Len(es) = 1 THEN ErrorString(H, es[1])
    ELSE <<"\n">> \o JoinPoints(H, es) \o <<"\n\n">>

\* err.Error() of a non-nil error value
ErrorString(H, err) ==
    IF err.kind = "Error"
    THEN <<"[", err.Namespace, ":", err.Code, "] ", err.Message>>
         \o (IF err.Wrapped # Nil
             THEN <<"\n-> ">> \o ErrorString(H, err.Wrapped)
             ELSE << >>)
    ELSE IF err.kind = "generic" THEN <<"generic">>
    ELSE IF err.kind = "chain"
         THEN IF err.len = 0 THEN << >>
              ELSE ErrorString(H, ChainContent(H.arrays, err)[1])
    ELSE ErrorGroupFormatterDefault(H, GroupErrors(H, err.ref))

\* g.Error(): g.Formatter(g.Errors); reading g.Formatter of a nil g panics
GroupError(H, r) ==
    IF r = 0 THEN Panic
    ELSE Ret(ErrorGroupFormatterDefault(H, GroupErrors(H, r)))

\* Mutant: the emptiness test is left out.
ErrorOrNilNoLenCheck(H, r) ==
    IF r = 0 THEN Ret(Nil) ELSE Ret(GroupPtr(r))

ErrorOrNil(H, r) ==
    IF r = 0 THEN Ret(Nil)
    ELSE IF H.groups[r].Errors.len = 0 THEN Ret(Nil)
    ELSE Ret(GroupPtr(r))

Empty(H, r) ==
    IF r = 0 THEN Ret(TRUE) ELSE Ret(H.groups[r].Errors.len = 0)

\* Mutant: the chain is a view of g.Errors itself, not of a copy.
GroupUnwrapNoCopy(H, r) ==
    IF r = 0 \/ H.groups[r].Errors.len = 0 THEN [heap |-> H, res |-> Nil]
    ELSE IF H.groups[r].Errors.len = 1
         THEN [heap |-> H, res |-> GroupErrors(H, r)[1]]
         ELSE [heap |-> H,
               res |-> ErrorChain(H.groups[r].Errors.arr, 0, H.groups[r].Errors.len)]

\* g.Unwrap(): [heap, res]
GroupUnwrap(H, r) ==
    IF r = 0 \/ H.groups[r].Errors.len = 0 THEN [heap |-> H, res |-> Nil]
    ELSE IF H.groups[r].Errors.len = 1
         THEN [heap |-> H, res |-> GroupErrors(H, r)[1]]
         ELSE LET id == FreshId(H.arrays)
                  errs == GroupErrors(H, r)
              IN [heap |-> Heap(H.groups, (id :> errs) @@ H.arrays),
                  res |-> ErrorChain(id, 0, Len(errs))]

\* g.Swap(i, j)
Swap(H, r, i, j) ==
    LET a == H.arrays[H.groups[r].Errors.arr]
    IN Heap(H.groups,
            [H.arrays EXCEPT ![H.groups[r].Errors.arr] = SetAt(SetAt(a, i, a[j]), j, a[i])])

\* The translate functions a caller passes: the identity, one returning a
\* foreign error, one returning nil, and one wrapping group k under E3.
Translated(fn, e) ==
    IF fn.kind = "id" THEN e
    ELSE IF fn.kind = "foreign" THEN G1
    ELSE IF fn.kind = "nil" THEN Nil
    ELSE [E3 EXCEPT !.Wrapped = GroupPtr(fn.k)]

RECURSIVE TranslateFrom(_, _, _, _)
TranslateFrom(H, r, fn, i) ==
    IF i > H.groups[r].Errors.len THEN H
    ELSE LET t == Translated(fn, GroupErrors(H, r)[i])
             found == As(H, t, "Error")
             e == IF found = Nil THEN Wrap(H, ErrUndefined, t) ELSE found
             H1 == Heap(H.groups,
                        [H.arrays EXCEPT ![H.groups[r].Errors.arr] = SetAt(@, i, e)])
         IN TranslateFrom(H1, r, fn, i + 1)

Translate(H, r, fn) == TranslateFrom(H, r, fn, 1)

RECURSIVE SliceFlatten(_)
SliceFlatten(slices) ==
    IF slices = << >> THEN << >>
    ELSE Head(slices) \o SliceFlatten(Tail(slices))

\* ErrorJoin(err, errs...): [heap, res]
ErrorJoin(H, err, errs) ==
    LET eg == As(H, err, "group")
    IN IF eg # Nil
       THEN [heap |-> AppendOp(H, eg.ref, errs), res |-> eg]
       ELSE LET H1 == NewErrorGroupOp(H, << >>)
                r == Len(H1.groups)
            IN [heap |-> AppendOp(H1, r, SliceFlatten(<<(<<err>>), errs>>)),
                res |-> GroupPtr(r)]

(***************************************************************************)
(* Actions on groups.  An action takes the inputs its callers may pass;     *)
(* each specification below names the inputs it draws.                      *)
(***************************************************************************)
Contents(H) == [r \in 1..Len(H.groups) |-> GroupErrors(H, r)]

ChainRoots == IF chain.res.kind = "chain" THEN {chain.res.arr} ELSE {}

Singles(xs) == {<<x>> : x \in xs}

Mutated(H, op, recv, args, res) ==
    /\ LenOk(H)
    /\ Len(H.groups) <= MaxGroups
    /\ groups' = H.groups
    /\ errArrays' = Collect(H, ChainRoots)
    /\ last' = Call(op, recv, args, res, Contents(H0))
    /\ UNCHANGED <<tagArrays, vals, chain>>

Queried(op, r, res) ==
    /\ last' = Call(op, r, << >>, res, Contents(H0))
    /\ UNCHANGED <<groups, errArrays, tagArrays, vals, chain>>

DoNewErrorGroup(lists) ==
    \E errs \in lists :
        Mutated(NewErrorGroupOp(H0, errs), "NewErrorGroup", 0, errs,
                GroupPtr(Len(groups) + 1))

DoAppend(lists) ==
    \E r \in 1..Len(groups), errs \in lists :
        Mutated(AppendOp(H0, r, errs), "Append", r, errs, Nil)

DoErrorJoin(firsts, lists) ==
    \E err \in firsts, errs \in lists :
        LET j == ErrorJoin(H0, err, errs)
        IN Mutated(j.heap, "ErrorJoin", 0, <<err, errs>>, j.res)

\* A translate function that wraps a group wraps one created before r.
DoTranslate(fns) ==
    \E r \in 1..Len(groups) :
        \E fn \in fns :
            /\ groups[r].Errors.len > 0
            /\ fn.kind = "wrap" => fn.k < r
            /\ Mutated(Translate(H0, r, fn), "Translate", r, <<fn>>, Nil)

DoSwap ==
    \E r \in 1..Len(groups) :
        \E i, j \in 1..groups[r].Errors.len :
            /\ i < j
            /\ Mutated(Swap(H0, r, i, j), "Swap", r, <<i, j>>, Nil)

DoUnwrap ==
    \E r \in 0..Len(groups) :
        LET u == GroupUnwrap(H0, r)
        IN /\ chain' = [g |-> r, res |-> u.res,
                        snap |-> IF u.res.kind = "chain"
                                 THEN ChainContent(u.heap.arrays, u.res) ELSE << >>,
                        cur |-> u.res, k |-> 0]
           /\ errArrays' = Collect(u.heap,
                                   IF u.res.kind = "chain" THEN {u.res.arr} ELSE {})
           /\ last' = Call("Unwrap", r, << >>, u.res, Contents(H0))
           /\ UNCHANGED <<groups, tagArrays, vals>>

\* Unwrap() on the chain the walk stands on: chain.cur moves to its tail, or
\* to nil, and chain.k counts the steps taken since g.Unwrap() returned.
DoChainUnwrap ==
    /\ chain.cur.kind = "chain"
    /\ chain' = [chain EXCEPT !.cur = ChainUnwrap(chain.cur), !.k = @ + 1]
    /\ last' = Call("chain.Unwrap", chain.cur, << >>, ChainUnwrap(chain.cur),
                    Contents(H0))
    /\ UNCHANGED <<groups, errArrays, tagArrays, vals>>

DoError == \E r \in 0..Len(groups) : Queried("Error", r, GroupError(H0, r))

DoErrorOrNil == \E r \in 0..Len(groups) : Queried("ErrorOrNil", r, ErrorOrNil(H0, r))

DoEmpty == \E r \in 0..Len(groups) : Queried("Empty", r, Empty(H0, r))

(***************************************************************************)
(* SpecChain: one group, as NewErrorGroup built it, its queries and the     *)
(* chain its Unwrap returns.                                                *)
(***************************************************************************)
EmptyHeap == Heap(<< >>, << >>)

InitChain ==
    /\ \E errs \in {<< >>, <<E1>>, <<E1, G1>>} :
           /\ groups = NewErrorGroupOp(EmptyHeap, errs).groups
           /\ errArrays = NewErrorGroupOp(EmptyHeap, errs).arrays
    /\ tagArrays = << >>
    /\ vals = << >>
    /\ chain = [g |-> 0, res |-> Nil, snap |-> << >>, cur |-> Nil, k |-> 0]
    /\ last = Call("init", Nil, << >>, Nil, << >>)

ChainLists == Singles({E1, G1} \cup GroupRefs)

ChainFns == {[kind |-> "id"], [kind |-> "foreign"]}

NextChain ==
    \/ DoAppend(ChainLists) \/ DoTranslate(ChainFns) \/ DoSwap \/ DoUnwrap
    \/ DoError \/ DoErrorOrNil \/ DoEmpty

SpecChain == InitChain /\ [][NextChain]_vars

(***************************************************************************)
(* SpecGroup: several groups, built and merged through NewErrorGroup,      *)
(* Append, ErrorJoin and Translate.                                        *)
(***************************************************************************)
GroupInputs ==
    {Nil, ZeroError, E1}
    \cup GroupRefs \cup {[E3 EXCEPT !.Wrapped = g] : g \in GroupRefs}

JoinFirsts ==
    {Nil, E2} \cup GroupRefs \cup {[E3 EXCEPT !.Wrapped = g] : g \in GroupRefs}

GroupLists == Singles(GroupInputs)

GroupFns == {[kind |-> "wrap", k |-> k] : k \in 1..Len(groups)}

NextGroup ==
    \/ DoNewErrorGroup(GroupLists \cup {<< >>})
    \/ DoAppend(GroupLists)
    \/ DoErrorJoin(JoinFirsts, {<< >>, <<Nil, E1>>})
    \/ DoTranslate(GroupFns)

SpecGroup == Init /\ [][NextGroup]_vars

(***************************************************************************)
(* Claims about one group, checked under SpecChain.                        *)
(***************************************************************************)
C4_Queries == {"Error", "ErrorOrNil", "Empty"}

C4_Expected(op) ==
    IF op = "Error" THEN Ret(<< >>)
    ELSE IF op = "ErrorOrNil" THEN Ret(Nil)
    ELSE Ret(TRUE)

\* C4 as stated: on a group with zero errors, and on a nil *ErrorGroup too,
\* Error() returns "", ErrorOrNil() returns nil and Empty() returns true,
\* each without a panic.
C4_EmptyOrNilGroupQueries ==
    (/\ last.op \in C4_Queries
     /\ (last.recv = 0 \/ groups[last.recv].Errors.len = 0))
    => last.res = C4_Expected(last.op)

\* C4 amended: on a group NewErrorGroup created that holds zero errors,
\* Error() returns "", ErrorOrNil() returns nil and Empty() returns true; on
\* a nil *ErrorGroup ErrorOrNil() returns nil and Empty() returns true, but
\* Error() panics (it reads g.Formatter through the nil pointer).
C4_EmptyGroupQueries ==
    /\ (/\ last.op \in C4_Queries
        /\ last.recv # 0
        /\ groups[last.recv].Errors.len = 0)
       => last.res = C4_Expected(last.op)
    /\ (last.op \in {"ErrorOrNil", "Empty"} /\ last.recv = 0)
       => last.res = C4_Expected(last.op)
    /\ (last.op = "Error" /\ last.recv = 0) => last.res.panic

C4_Witness ==
    /\ last.op = "Error"
    /\ last.recv = 1
    /\ groups[1].Errors.len = 0
    /\ last.res = Ret(<< >>)

\* C10: Unwrap() returns nil for a nil or empty group, the element itself for
\* a group of one error, and for two or more a chain over a copy of the
\* sequence: no later Append, Translate or Swap on the group changes the
\* chain's length, elements or order.
C10_UnwrapChainIsACopy ==
    /\ last.op = "Unwrap" =>
         LET es == IF last.recv = 0 THEN << >> ELSE GroupErrors(H0, last.recv)
         IN IF Len(es) = 0 THEN last.res = Nil
            ELSE IF Len(es) = 1 THEN last.res = es[1]
            ELSE /\ last.res.kind = "chain"
                 /\ ChainContent(errArrays, last.res) = es
    /\ chain.res.kind = "chain" =>
         ChainContent(errArrays, chain.res) = chain.snap

C10_Witness ==
    /\ chain.res.kind = "chain"
    /\ last.op \in {"Append", "Translate", "Swap"}
    /\ last.recv = chain.g
    /\ last.pre[chain.g] = chain.snap
    /\ GroupErrors(H0, chain.g) # chain.snap
    /\ ChainContent(errArrays, chain.res) = chain.snap

(***************************************************************************)
(* SpecWalk: one group, the chain its Unwrap returns and the walk down     *)
(* that chain, with the group appended to and reordered in between.        *)
(***************************************************************************)
WalkLists == Singles({E1, E2})

NextWalk == DoAppend(WalkLists) \/ DoSwap \/ DoUnwrap \/ DoChainUnwrap

SpecWalk == InitChain /\ [][NextWalk]_vars

\* C11: for a group holding n >= 2 errors [x1..xn], g.Unwrap() is a chain
\* over [x1..xn]; after k further Unwrap() calls (k < n) the walk stands on a
\* chain over [x(k+1)..xn], whose head is x(k+1); Unwrap() on the chain of
\* length 1 yields nil, so the walk ends, at nil, after exactly n steps and
\* has then shown every element once, in insertion order.
C11_ChainWalkIsLinear ==
    /\ (last.op = "Unwrap" /\ last.res.kind = "chain") =>
          /\ chain.snap = last.pre[last.recv]
          /\ chain.k = 0
    /\ chain.res.kind = "chain" =>
          LET n == Len(chain.snap)
          IN /\ n >= 2
             /\ chain.k <= n
             /\ IF chain.k < n
                THEN /\ chain.cur.kind = "chain"
                     /\ ChainContent(errArrays, chain.cur)
                          = SubSeq(chain.snap, chain.k + 1, n)
                     /\ ChainContent(errArrays, chain.cur)[1]
                          = chain.snap[chain.k + 1]
                ELSE chain.cur = Nil
    /\ last.op = "chain.Unwrap" =>
          (last.res = Nil <=> last.recv.len <= 1)

C11_Witness ==
    /\ last.op = "chain.Unwrap"
    /\ chain.res.kind = "chain"
    /\ Len(chain.snap) = 3
    /\ chain.snap[1] # chain.snap[2]
    /\ chain.k = 3
    /\ chain.cur = Nil

(***************************************************************************)
(* Claims about merging groups, checked under SpecGroup.                   *)
(***************************************************************************)
NonZero(es) == \A i \in 1..Len(es) : es[i] # ZeroError

\* C3: appending a zero-value Error is a no-op, so no group built through
\* NewErrorGroup, Append and ErrorJoin ever holds a zero Error.
C3_AppendZeroIsNoOp ==
    /\ (last.op = "Append" /\ last.args = <<ZeroError>>)
       => GroupErrors(H0, last.recv) = last.pre[last.recv]
    /\ \A r \in 1..Len(groups) : NonZero(GroupErrors(H0, r))

\* C8: g.Append(h), for h holding the non-zero Errors T, leaves g holding
\* its former sequence S followed by T, in T's order.
C8_AppendFlattensInOrder ==
    (/\ last.op = "Append"
     /\ last.args[1].kind = "group"
     /\ NonZero(last.pre[last.args[1].ref]))
    => GroupErrors(H0, last.recv)
         = last.pre[last.recv] \o last.pre[last.args[1].ref]

\* The elements the claims expect an argument list to contribute: nothing for
\* nil, a group's elements for a group, the Error itself for an Error, and
\* ErrUndefined wrapping it for any other error.
RECURSIVE C9_Expected(_, _)
C9_Expected(pre, xs) ==
    IF xs = << >> THEN << >>
    ELSE LET x == Head(xs)
             one == IF x = Nil THEN << >>
                    ELSE IF x.kind = "group" THEN pre[x.ref]
                    ELSE IF x.kind = "Error" THEN <<x>>
                    ELSE <<[ErrUndefined EXCEPT !.Wrapped = x]>>
         IN one \o C9_Expected(pre, Tail(xs))

\* C9: ErrorJoin(err, errs...) returns err itself, with errs appended in
\* place, when err is a *ErrorGroup, and otherwise a new group holding err
\* (when non-nil) followed by the non-nil errs, groups flattened.
C9_ErrorJoinReusesOnlyGroups ==
    last.op = "ErrorJoin" =>
        LET err == last.args[1]
            errs == last.args[2]
        IN /\ last.res.kind = "group"
           /\ last.res.ref # 0
           /\ IF err.kind = "group"
              THEN /\ last.res = err
                   /\ GroupErrors(H0, err.ref)
                        = last.pre[err.ref] \o C9_Expected(last.pre, errs)
              ELSE /\ last.res.ref = Len(last.pre) + 1
                   /\ GroupErrors(H0, last.res.ref)
                        = C9_Expected(last.pre, <<err>> \o errs)

\* C13: g.Append(x), for a non-nil x that is not itself a *ErrorGroup, grows
\* g by exactly one element, placed last: x itself when x is a non-zero
\* Error, whatever x wraps, and ErrUndefined wrapping x otherwise.
C13_AppendAddsExactlyOne ==
    (/\ last.op = "Append"
     /\ Len(last.args) = 1
     /\ last.args[1].kind \notin {"nil", "group"})
    => GroupErrors(H0, last.recv)
         = Append(last.pre[last.recv],
                  IF last.args[1].kind = "Error" /\ last.args[1] # ZeroError
                  THEN last.args[1]
                  ELSE [ErrUndefined EXCEPT !.Wrapped = last.args[1]])

====
